---- MODULE Spec2Model ----
(***************************************************************************)
(* Resumable chunked upload: the server-side upload-session service        *)
(* (UploadService in app/api/src/services) over the S3 storage adapter,    *)
(* and the client-side upload controller (ChunkUploadManager in            *)
(* app/ui/src/services).  The two programs are specified separately: Spec  *)
(* is the service, ControllerSpec is the controller with the service as    *)
(* its environment.  The pure functions of the client (the chunk planner   *)
(* and the reconciliation of syncWithBackend) are applied to inputs drawn  *)
(* from bounded sets in PlannerSpec and ReconcileSpec, its constructor and *)
(* retry loop in ConfigSpec, its progress accounting in ProgressSpec.      *)
(* TransferSpec is the controller with the service behind its requests.    *)
(*                                                                         *)
(* The service runs on one event loop: a handler runs without              *)
(* interruption up to its next `await`, and other handlers may run while   *)
(* it is suspended.  Each handler is therefore split at its awaits: the    *)
(* ...Call action is the code before the await of the storage adapter and  *)
(* the ...Resume action is the code after it.  A suspended handler keeps   *)
(* its reference to the session object even when the object has been       *)
(* deleted from the uploadSessions map in the meantime.                    *)
(***************************************************************************)
EXTENDS Integers, Sequences, FiniteSets, Bags, TLC

\* ---------------------------------------------------------------- bounds
MaxSessions == 1
\* sessions side by side in SessionsSpec
MaxConcurrentSessions == 2
MaxChunks == 2
MaxTime == 2
\* handler invocations (requests and timer callbacks) in one run
MaxCalls == 4
\* chunks of the file the controller transfers
MaxFileChunks == 3
\* invocations of uploadFile (directly, by resume or by retryFailed)
MaxRuns == 2
\* config.maxParallelChunks and config.maxRetries of the controller
MaxParallelChunks == 2
MaxRetries == 1
\* file.size and config.chunkSize handed to the chunk planner, in bytes
MaxFileSize == 10
MaxChunkSize == 5
\* file.chunks handed to the reconciliation
MaxLocalChunks == 4
\* the largest maxRetries the configuration offers
MaxRetriesOption == 10

\* ------------------------------------------------------ program constants
MIN_CHUNK_SIZE == 5 * 1024 * 1024
CHUNK_SIZE == 5242880
\* config.UPLOAD_EXPIRATION, in units of one expiration period (3600 s)
UPLOAD_EXPIRATION == 1
\* config.retryDelay of the controller, in ms
RETRY_DELAY == 1000

SessionIds == 1..MaxConcurrentSessions
\* the sessions that Spec creates and addresses
ServedIds == 1..MaxSessions
\* fileSize is positive (initiateUploadSchema); one size per chunk count
FileSizes == {c * MIN_CHUNK_SIZE - 1 : c \in 1..MaxChunks}
\* 0 stands for an omitted chunkSize
ChunkSizes == {0, MIN_CHUNK_SIZE - 1, MIN_CHUNK_SIZE}
ChunkIndexes == (0 - 1)..MaxChunks
\* opaque completion tags the storage backend may return for a part
ETags == <<"etag-a", "etag-b">>
NoValue == "-"

VARIABLES
    sessions,        \* the UploadSession objects, by uploadId
    uploadSessions,  \* the uploadIds the uploadSessions Map holds
    now,             \* Date.now()
    pending,         \* bag of handlers suspended on a storage adapter call
    reply,           \* outcome of the handler that finished last
    returnedTags,    \* per session and part: tags returned to callers
    returnedUrls,    \* per session: locations returned to callers
    completeCalls,   \* per session: completeMultipartUpload invocations
    abortCalls,      \* per session: abortMultipartUpload invocations
    calls            \* handlers invoked so far

\* the upload controller and the transfer it drives
VARIABLES
    file,            \* the UploadFile object: backendUploadId, status, chunks, error
    queue,           \* this.queue: positions of file.chunks
    paused,          \* this.paused
    heldUploadId,    \* this.uploadId, 0 when undefined
    runs,            \* per uploadFile invocation: the await it is suspended on
    workers,         \* bag of processQueue workers suspended in uploadWithRetry
    cancelling,      \* cancel(): "no", "awaiting" its request, "done"
    observed,        \* file.status as last delivered to the onChange observer
    completeRequests, \* /upload/complete requests sent
    undisturbed      \* no request has failed and only one call was made

\* a function of the client applied on its own
VARIABLES
    args,            \* the arguments of the call
    returned         \* what the calls made so far returned, in order

\* the controller and the service together
VARIABLES
    requests         \* bag of requests and timers of the controller that are
                     \* outstanding, each with the uploadId it was sent with

functions == <<args, returned>>

service == <<sessions, uploadSessions, now, pending, reply, returnedTags,
             returnedUrls, completeCalls, abortCalls, calls>>

client == <<file, queue, paused, heldUploadId, runs, workers, cancelling, observed,
            completeRequests, undisturbed>>

vars == <<sessions, uploadSessions, now, pending, reply, returnedTags,
          returnedUrls, completeCalls, abortCalls, calls,
          file, queue, paused, heldUploadId, runs, workers, cancelling, observed,
          completeRequests, undisturbed, args, returned, requests>>

history == <<returnedTags, returnedUrls, completeCalls, abortCalls>>

\* ----------------------------------------------------------------- data
NoSession ==
    [status |-> "none", totalChunks |-> 0, uploadedParts |-> <<>>, expiresAt |-> 0]

Range(f) == {f[x] : x \in DOMAIN f}

Ceil(a, b) == (a + b - 1) \div b

\* S3Service.getS3Url: the virtual-hosted, regional URL built from the key
GetS3Url(s) == "https://bucket.s3.region.amazonaws.com/key"

\* the Location a CompleteMultipartUpload response may carry
Locations == {GetS3Url(0), "https://s3.amazonaws.com/bucket/key"}

PartNumbers(parts) == {parts[i].partNumber : i \in 1..Len(parts)}

Entries(parts, pn) == Cardinality({i \in 1..Len(parts) : parts[i].partNumber = pn})

\* Array.prototype.find: the first matching element
FindPart(parts, pn) ==
    LET hits == {i \in 1..Len(parts) : parts[i].partNumber = pn}
    IN  IF hits = {} THEN NoValue
        ELSE parts[CHOOSE i \in hits : \A j \in hits : i <= j].etag

\* the parts as they are, duplicates kept
UniqueParts_NoDedup(parts) == parts

\* Array.from(new Map(parts.map(p => [p.partNumber, p])).values()):
\* keys keep the position of their first insertion, values are the last set
UniqueParts(parts) ==
    LET idx == [i \in 1..Len(parts) |-> i]
        firsts == SelectSeq(idx, LAMBDA i :
                      \A j \in 1..(i - 1) : parts[j].partNumber # parts[i].partNumber)
        lastOf(pn) == CHOOSE j \in 1..Len(parts) :
                          /\ parts[j].partNumber = pn
                          /\ \A k \in (j + 1)..Len(parts) : parts[k].partNumber # pn
    IN  [n \in 1..Len(firsts) |-> parts[lastOf(parts[firsts[n]].partNumber)]]

\* parts.sort((a, b) => a.partNumber - b.partNumber), stable
RECURSIVE SortParts(_)
SortParts(parts) ==
    IF Len(parts) = 0 THEN <<>>
    ELSE LET m == CHOOSE i \in 1..Len(parts) :
                      /\ \A j \in 1..Len(parts) : parts[i].partNumber <= parts[j].partNumber
                      /\ \A j \in 1..(i - 1) : parts[j].partNumber # parts[i].partNumber
             rest == [k \in 1..(Len(parts) - 1) |-> IF k < m THEN parts[k] ELSE parts[k + 1]]
         IN  <<parts[m]>> \o SortParts(rest)

\* a suspended handler: what it was called with and what had been returned
\* to earlier callers of the same operation by then
Call(op, s, pn, prior) ==
    [op |-> op, sid |-> s, part |-> pn, prior |-> prior]

Suspend(c) == pending (+) SetToBag({c})

Finish(c) == pending (-) SetToBag({c})

Suspended(op) == {c \in BagToSet(pending) : c.op = op}

\* how many suspended handlers the set of call records S stands for
RECURSIVE Copies(_)
Copies(S) ==
    IF S = {} THEN 0
    ELSE LET c == CHOOSE x \in S : TRUE
         IN  CopiesIn(c, pending) + Copies(S \ {c})

Count(op, s) == Copies({c \in Suspended(op) : c.sid = s})

\* a handler is invoked
Invoke ==
    /\ calls < MaxCalls
    /\ calls' = calls + 1

\* the tags uploadPart may return for a part: the service never compares
\* tags, so a tag that differs from those already returned for the part is
\* named by the first unused one
ETagsFor(s, pn) ==
    LET used == returnedTags[s][pn]
        unused == {i \in 1..Len(ETags) : ETags[i] \notin used}
    IN  IF unused = {} THEN used
        ELSE used \cup {ETags[CHOOSE i \in unused : \A j \in unused : i <= j]}

Reply(op, s, outcome, value) ==
    [op |-> op, sid |-> s, outcome |-> outcome, value |-> value]

\* file.error: undefined, `${failed.length} chunk(s) failed`, or the message
\* of a caught exception
NoError == [kind |-> "undefined", failed |-> 0]

ChunksFailed(n) == [kind |-> "chunk(s) failed", failed |-> n]

Message == [kind |-> "message", failed |-> 0]

\* createUploadFile has not been called yet
NoFile == [backendUploadId |-> 0, status |-> "none", chunks |-> <<>>, error |-> NoError]

\* new ChunkUploadManager()
ControllerInit ==
    /\ file = NoFile
    /\ queue = <<>>
    /\ paused = FALSE
    /\ heldUploadId = 0
    /\ runs = [r \in 1..MaxRuns |-> "unused"]
    /\ workers = EmptyBag
    /\ cancelling = "no"
    /\ observed = "none"
    /\ completeRequests = 0
    /\ undisturbed = TRUE

\* no function is being applied
NoArgs == [fn |-> "none"]

Idle ==
    /\ args = NoArgs
    /\ returned = <<>>

\* new UploadService()
ServiceInit ==
    /\ sessions = [s \in SessionIds |-> NoSession]
    /\ uploadSessions = {}
    /\ now = 0
    /\ pending = EmptyBag
    /\ reply = Reply("none", 0, "none", NoValue)
    /\ returnedTags = [s \in SessionIds |-> [p \in 1..MaxChunks |-> {}]]
    /\ returnedUrls = [s \in SessionIds |-> {}]
    /\ completeCalls = [s \in SessionIds |-> 0]
    /\ abortCalls = [s \in SessionIds |-> 0]
    /\ calls = 0

Init ==
    /\ Idle
    /\ ControllerInit
    /\ ServiceInit
    /\ requests = EmptyBag

\* ------------------------------------------------------------- initiate
\* initiateUpload without its test of the minimum chunk size
InitiateUpload_NoMinimum(fileSize, chunkSize, adapterOk) ==
    LET effectiveChunkSize == IF chunkSize = 0 THEN CHUNK_SIZE ELSE chunkSize
        unused == {s \in SessionIds : sessions[s].status = "none"}
        uploadId == CHOOSE s \in unused : \A t \in unused : s <= t
    IN  /\ unused # {}
        /\ Invoke
        /\ IF ~adapterOk
           THEN /\ reply' = Reply("initiate", 0, "AdapterError", NoValue)
                /\ UNCHANGED <<sessions, uploadSessions>>
           ELSE /\ sessions' = [sessions EXCEPT ![uploadId] =
                       [status |-> "pending",
                        totalChunks |-> Ceil(fileSize, effectiveChunkSize),
                        uploadedParts |-> <<>>,
                        expiresAt |-> now + UPLOAD_EXPIRATION]]
                /\ uploadSessions' = uploadSessions \cup {uploadId}
                /\ reply' = Reply("initiate", uploadId, "ok", NoValue)
        /\ UNCHANGED <<now, pending, history>>

\* UploadService.initiateUpload; randomUUID is modelled by the next unused id
InitiateUpload(fileSize, chunkSize, adapterOk) ==
    LET effectiveChunkSize == IF chunkSize = 0 THEN CHUNK_SIZE ELSE chunkSize
        unused == {s \in SessionIds : sessions[s].status = "none"}
        uploadId == CHOOSE s \in unused : \A t \in unused : s <= t
    IN  /\ unused # {}
        /\ Invoke
        /\ IF effectiveChunkSize < MIN_CHUNK_SIZE
           THEN /\ reply' = Reply("initiate", 0, "InvalidChunkSize", NoValue)
                /\ UNCHANGED <<sessions, uploadSessions>>
           ELSE IF ~adapterOk
           THEN /\ reply' = Reply("initiate", 0, "AdapterError", NoValue)
                /\ UNCHANGED <<sessions, uploadSessions>>
           ELSE /\ sessions' = [sessions EXCEPT ![uploadId] =
                       [status |-> "pending",
                        totalChunks |-> Ceil(fileSize, effectiveChunkSize),
                        uploadedParts |-> <<>>,
                        expiresAt |-> now + UPLOAD_EXPIRATION]]
                /\ uploadSessions' = uploadSessions \cup {uploadId}
                /\ reply' = Reply("initiate", uploadId, "ok", NoValue)
        /\ UNCHANGED <<now, pending, history>>

\* ---------------------------------------------------------- uploadChunk
\* the chunk index validated before the expiry test
UploadChunkOutcome_IndexFirst(stored, session, t, chunkIndex) ==
    IF ~stored THEN "SessionNotFound"
    ELSE IF session.status = "completed" THEN "SessionAlreadyCompleted"
    ELSE IF session.status = "cancelled" THEN "SessionCancelled"
    ELSE IF chunkIndex < 0 \/ chunkIndex >= session.totalChunks THEN "InvalidPartNumber"
    ELSE IF t > session.expiresAt THEN "SessionExpired"
    ELSE IF FindPart(session.uploadedParts, chunkIndex + 1) # NoValue THEN "existing"
    ELSE "upload"

\* the checks without the validation of the chunk index
UploadChunkOutcome_NoIndexTest(stored, session, t, chunkIndex) ==
    IF ~stored THEN "SessionNotFound"
    ELSE IF session.status = "completed" THEN "SessionAlreadyCompleted"
    ELSE IF session.status = "cancelled" THEN "SessionCancelled"
    ELSE IF t > session.expiresAt THEN "SessionExpired"
    ELSE IF FindPart(session.uploadedParts, chunkIndex + 1) # NoValue THEN "existing"
    ELSE "upload"

\* the checks of uploadChunk up to the decision to call the storage adapter
UploadChunkOutcome(stored, session, t, chunkIndex) ==
    IF ~stored THEN "SessionNotFound"
    ELSE IF session.status = "completed" THEN "SessionAlreadyCompleted"
    ELSE IF session.status = "cancelled" THEN "SessionCancelled"
    ELSE IF t > session.expiresAt THEN "SessionExpired"
    ELSE IF chunkIndex < 0 \/ chunkIndex >= session.totalChunks THEN "InvalidPartNumber"
    ELSE IF FindPart(session.uploadedParts, chunkIndex + 1) # NoValue THEN "existing"
    ELSE "upload"

\* uploadChunk from its call to its first await, return or throw
UploadChunkCall(s, chunkIndex) ==
    LET session == sessions[s]
        outcome == UploadChunkOutcome(s \in uploadSessions, session, now, chunkIndex)
        partNumber == chunkIndex + 1
        prior == IF partNumber \in 1..MaxChunks THEN returnedTags[s][partNumber] ELSE {}
        etag == FindPart(session.uploadedParts, partNumber)
    IN  /\ Invoke
        /\ CASE outcome = "upload" ->
                  /\ pending' = Suspend(Call("chunk", s, partNumber, prior))
                  /\ UNCHANGED <<sessions, uploadSessions, now, reply, history>>
             [] outcome = "existing" ->
                  /\ reply' = Reply("chunk", s, "ok", etag)
                  /\ returnedTags' = [returnedTags EXCEPT ![s][partNumber] = @ \cup {etag}]
                  /\ UNCHANGED <<sessions, uploadSessions, now, pending, returnedUrls,
                                 completeCalls, abortCalls>>
             [] outcome = "SessionExpired" ->
                  /\ sessions' = [sessions EXCEPT ![s].status = "failed"]
                  /\ reply' = Reply("chunk", s, outcome, NoValue)
                  /\ UNCHANGED <<uploadSessions, now, pending, history>>
             [] OTHER ->
                  /\ reply' = Reply("chunk", s, outcome, NoValue)
                  /\ UNCHANGED <<sessions, uploadSessions, now, pending, history>>

\* the saved part and the status after a resolved uploadPart
SavePart(session, partNumber, etag) ==
    [session EXCEPT !.uploadedParts = Append(@, [partNumber |-> partNumber, etag |-> etag]),
                    !.status = "uploading"]

\* uploadChunk after the await of s3Service.uploadPart: result is the ETag,
\* or AdapterError when the adapter threw
UploadChunkResume(c, result) ==
    /\ c \in Suspended("chunk")
    /\ result \in ETagsFor(c.sid, c.part) \cup {"AdapterError"}
    /\ pending' = Finish(c)
    /\ IF result = "AdapterError"
       THEN /\ reply' = Reply("chunk", c.sid, "AdapterError", NoValue)
            /\ UNCHANGED <<sessions, history>>
       ELSE /\ sessions' = [sessions EXCEPT ![c.sid] = SavePart(@, c.part, result)]
            /\ reply' = Reply("chunk", c.sid, "ok", result)
            /\ returnedTags' = [returnedTags EXCEPT ![c.sid][c.part] = @ \cup {result}]
            /\ UNCHANGED <<returnedUrls, completeCalls, abortCalls>>
    /\ UNCHANGED <<uploadSessions, now, calls>>

\* ------------------------------------------------------- completeUpload
\* a gate that only rejects a surplus of parts
AllPartsUploaded_AtMost(parts, totalChunks) == Len(parts) <= totalChunks

\* the gate of completeUpload on the deduplicated parts
AllPartsUploaded(parts, totalChunks) == Len(parts) = totalChunks

\* the checks of completeUpload up to the decision to call the storage adapter
CompleteUploadOutcome(stored, session) ==
    IF ~stored THEN "SessionNotFound"
    ELSE IF session.status = "completed" THEN "already"
    ELSE IF ~AllPartsUploaded(UniqueParts(session.uploadedParts), session.totalChunks)
         THEN "IncompleteUpload"
    ELSE "complete"

\* completeUpload from its call to its first await, return or throw;
\* s3Service.completeMultipartUpload sorts the parts array in place
CompleteUploadCall(s) ==
    LET session == sessions[s]
        outcome == CompleteUploadOutcome(s \in uploadSessions, session)
        uniqueParts == UniqueParts(session.uploadedParts)
    IN  /\ Invoke
        /\ CASE outcome = "complete" ->
                  /\ sessions' = [sessions EXCEPT ![s].uploadedParts = SortParts(uniqueParts)]
                  /\ completeCalls' = [completeCalls EXCEPT ![s] = @ + 1]
                  /\ pending' = Suspend(Call("complete", s, 0, returnedUrls[s]))
                  /\ UNCHANGED <<uploadSessions, now, reply, returnedTags, returnedUrls,
                                 abortCalls>>
             [] outcome = "already" ->
                  /\ reply' = Reply("complete", s, "ok", GetS3Url(s))
                  /\ returnedUrls' = [returnedUrls EXCEPT ![s] = @ \cup {GetS3Url(s)}]
                  /\ UNCHANGED <<sessions, uploadSessions, now, pending, returnedTags,
                                 completeCalls, abortCalls>>
             [] outcome = "IncompleteUpload" ->
                  /\ sessions' = [sessions EXCEPT ![s].uploadedParts = uniqueParts]
                  /\ reply' = Reply("complete", s, outcome, NoValue)
                  /\ UNCHANGED <<uploadSessions, now, pending, history>>
             [] OTHER ->
                  /\ reply' = Reply("complete", s, outcome, NoValue)
                  /\ UNCHANGED <<sessions, uploadSessions, now, pending, history>>

\* completeUpload after the await of s3Service.completeMultipartUpload:
\* result is the Location of the response, or AdapterError
CompleteUploadResume(c, result) ==
    /\ c \in Suspended("complete")
    /\ pending' = Finish(c)
    /\ IF result = "AdapterError"
       THEN /\ reply' = Reply("complete", c.sid, "AdapterError", NoValue)
            /\ UNCHANGED <<sessions, history>>
       ELSE /\ sessions' = [sessions EXCEPT ![c.sid].status = "completed"]
            /\ reply' = Reply("complete", c.sid, "ok", result)
            /\ returnedUrls' = [returnedUrls EXCEPT ![c.sid] = @ \cup {result}]
            /\ UNCHANGED <<returnedTags, completeCalls, abortCalls>>
    /\ UNCHANGED <<uploadSessions, now, calls>>

\* --------------------------------------------------------- cancelUpload
\* cancelUpload without its test of the completed status
CancelUploadOutcome_NoCompletedTest(stored, session) ==
    IF ~stored THEN "SessionNotFound"
    ELSE "abort"

CancelUploadOutcome(stored, session) ==
    IF ~stored THEN "SessionNotFound"
    ELSE IF session.status = "completed" THEN "CannotCancelCompleted"
    ELSE "abort"

\* cancelUpload from its call to its await or throw
CancelUploadCall(s) ==
    LET session == sessions[s]
        outcome == CancelUploadOutcome(s \in uploadSessions, session)
    IN  /\ Invoke
        /\ IF outcome = "abort"
           THEN /\ abortCalls' = [abortCalls EXCEPT ![s] = @ + 1]
                /\ pending' = Suspend(Call("cancel", s, 0, {}))
                /\ UNCHANGED <<sessions, uploadSessions, now, reply, returnedTags,
                               returnedUrls, completeCalls>>
           ELSE /\ reply' = Reply("cancel", s, outcome, NoValue)
                /\ UNCHANGED <<sessions, uploadSessions, now, pending, history>>

\* a cancel that marks the session and leaves it in the map
CancelUploadResume_KeepsSession(c, abortOk) ==
    /\ c \in Suspended("cancel")
    /\ pending' = Finish(c)
    /\ IF abortOk
       THEN /\ sessions' = [sessions EXCEPT ![c.sid].status = "cancelled"]
            /\ reply' = Reply("cancel", c.sid, "ok", NoValue)
            /\ UNCHANGED uploadSessions
       ELSE /\ reply' = Reply("cancel", c.sid, "AdapterError", NoValue)
            /\ UNCHANGED <<sessions, uploadSessions>>
    /\ UNCHANGED <<now, history, calls>>

\* a cancel that removes the session whether or not the abort succeeded
CancelUploadResume_DeletesAnyway(c, abortOk) ==
    /\ c \in Suspended("cancel")
    /\ pending' = Finish(c)
    /\ uploadSessions' = uploadSessions \ {c.sid}
    /\ IF abortOk
       THEN /\ sessions' = [sessions EXCEPT ![c.sid].status = "cancelled"]
            /\ reply' = Reply("cancel", c.sid, "ok", NoValue)
       ELSE /\ reply' = Reply("cancel", c.sid, "AdapterError", NoValue)
            /\ UNCHANGED sessions
    /\ UNCHANGED <<now, history, calls>>

\* a cancel that empties the map
CancelUploadResume_ClearsMap(c, abortOk) ==
    /\ c \in Suspended("cancel")
    /\ pending' = Finish(c)
    /\ IF abortOk
       THEN /\ sessions' = [sessions EXCEPT ![c.sid].status = "cancelled"]
            /\ uploadSessions' = {}
            /\ reply' = Reply("cancel", c.sid, "ok", NoValue)
       ELSE /\ reply' = Reply("cancel", c.sid, "AdapterError", NoValue)
            /\ UNCHANGED <<sessions, uploadSessions>>
    /\ UNCHANGED <<now, history, calls>>

\* cancelUpload after the await of s3Service.abortMultipartUpload
CancelUploadResume(c, abortOk) ==
    /\ c \in Suspended("cancel")
    /\ pending' = Finish(c)
    /\ IF abortOk
       THEN /\ sessions' = [sessions EXCEPT ![c.sid].status = "cancelled"]
            /\ uploadSessions' = uploadSessions \ {c.sid}
            /\ reply' = Reply("cancel", c.sid, "ok", NoValue)
       ELSE /\ reply' = Reply("cancel", c.sid, "AdapterError", NoValue)
            /\ UNCHANGED <<sessions, uploadSessions>>
    /\ UNCHANGED <<now, history, calls>>

\* ----------------------------------------------- cleanupExpiredSessions
\* the scan of the sweep: the ids pushed to expiredSessions
ExpiredSessions(stored, t) ==
    {s \in stored : t > sessions[s].expiresAt /\ sessions[s].status # "completed"}

\* the timer callback: the scan, then each forEach callback up to its await
\* of s3Service.abortMultipartUpload
CleanupExpiredSessions ==
    LET expiredSessions == ExpiredSessions(uploadSessions, now)
    IN  /\ Invoke
        /\ pending' = pending (+) SetToBag({Call("sweep", s, 0, {}) : s \in expiredSessions})
        /\ abortCalls' = [s \in SessionIds |->
               IF s \in expiredSessions THEN abortCalls[s] + 1 ELSE abortCalls[s]]
        /\ UNCHANGED <<sessions, uploadSessions, now, reply, returnedTags, returnedUrls,
                       completeCalls>>

\* the delete placed inside the try block, skipped when the abort throws
CleanupResume_DeleteInTry(c, abortOk) ==
    /\ c \in Suspended("sweep")
    /\ pending' = Finish(c)
    /\ uploadSessions' = IF abortOk THEN uploadSessions \ {c.sid} ELSE uploadSessions
    /\ reply' = Reply("sweep", c.sid,
                      IF abortOk /\ c.sid \in uploadSessions THEN "removed" ELSE "absent",
                      IF abortOk THEN "aborted" ELSE "abort-failed")
    /\ UNCHANGED <<sessions, now, history, calls>>

\* a forEach callback of the sweep after its await: the abort error is
\* caught and logged, the id is deleted from the map either way
CleanupResume(c, abortOk) ==
    /\ c \in Suspended("sweep")
    /\ pending' = Finish(c)
    /\ uploadSessions' = uploadSessions \ {c.sid}
    /\ reply' = Reply("sweep", c.sid,
                      IF c.sid \in uploadSessions THEN "removed" ELSE "absent",
                      IF abortOk THEN "aborted" ELSE "abort-failed")
    /\ UNCHANGED <<sessions, now, history, calls>>

\* the clock advances; only the time since the first session was created
\* matters, so the clock starts with it
Tick ==
    /\ now < MaxTime
    /\ sessions[1].status # "none"
    /\ now' = now + 1
    /\ UNCHANGED <<sessions, uploadSessions, pending, reply, history, calls>>

Next ==
    \/ \E f \in FileSizes, c \in ChunkSizes, ok \in BOOLEAN :
           /\ \E s \in ServedIds : sessions[s].status = "none"
           /\ InitiateUpload(f, c, ok) /\ UNCHANGED <<client, functions, requests>>
    \/ \E s \in ServedIds, i \in ChunkIndexes :
           UploadChunkCall(s, i) /\ UNCHANGED <<client, functions, requests>>
    \/ \E c \in BagToSet(pending), r \in Range(ETags) \cup {"AdapterError"} :
           UploadChunkResume(c, r) /\ UNCHANGED <<client, functions, requests>>
    \/ \E s \in ServedIds : CompleteUploadCall(s) /\ UNCHANGED <<client, functions, requests>>
    \/ \E c \in BagToSet(pending), r \in Locations \cup {"AdapterError"} :
           CompleteUploadResume(c, r) /\ UNCHANGED <<client, functions, requests>>
    \/ \E s \in ServedIds : CancelUploadCall(s) /\ UNCHANGED <<client, functions, requests>>
    \/ \E c \in BagToSet(pending), ok \in BOOLEAN :
           CancelUploadResume(c, ok) /\ UNCHANGED <<client, functions, requests>>
    \/ CleanupExpiredSessions /\ UNCHANGED <<client, functions, requests>>
    \/ \E c \in BagToSet(pending), ok \in BOOLEAN :
           CleanupResume(c, ok) /\ UNCHANGED <<client, functions, requests>>
    \/ Tick /\ UNCHANGED <<client, functions, requests>>

Spec == Init /\ [][Next]_vars

\* the storage adapter settles every call the sweep awaits
FairSpec ==
    Spec /\ WF_vars(\E c \in BagToSet(pending), ok \in BOOLEAN :
                        CleanupResume(c, ok) /\ UNCHANGED <<client, functions, requests>>)

\* the service with sessions side by side: the handlers of Spec, and the
\* same handlers for the sessions Spec leaves out
SessionsNext ==
    \/ Next
    \/ \E f \in FileSizes, c \in ChunkSizes, ok \in BOOLEAN :
           InitiateUpload(f, c, ok) /\ UNCHANGED <<client, functions, requests>>
    \/ \E s \in SessionIds \ ServedIds, i \in ChunkIndexes :
           UploadChunkCall(s, i) /\ UNCHANGED <<client, functions, requests>>
    \/ \E s \in SessionIds \ ServedIds :
           CompleteUploadCall(s) /\ UNCHANGED <<client, functions, requests>>
    \/ \E s \in SessionIds \ ServedIds :
           CancelUploadCall(s) /\ UNCHANGED <<client, functions, requests>>

SessionsSpec == Init /\ [][SessionsNext]_vars

\* ----------------------------------------------------- upload controller
\* The controller runs on the browser's event loop.  Code between two
\* awaits of a request or a timer runs without interruption, the
\* continuations of resolved promises included: a worker that finishes a
\* chunk takes the next one, or exits and lets Promise.all resolve, in the
\* same step.  A chunk is named by its position in file.chunks, which is
\* its chunkIndex + 1.

\* createUploadFile: every chunk pending
NewFile(n) ==
    [backendUploadId |-> 0, status |-> "pending",
     chunks |-> [i \in 1..n |-> "pending"], error |-> NoError]

\* file.chunks.filter(c => c.status !== 'success'), as positions
NotSuccess(chunks) ==
    SelectSeq([i \in 1..Len(chunks) |-> i], LAMBDA i : chunks[i] # "success")

\* file.chunks.filter(c => c.status === 'error').length
ErrorCount(chunks) == Cardinality({i \in 1..Len(chunks) : chunks[i] = "error"})

AllSuccess(chunks) == \A i \in 1..Len(chunks) : chunks[i] = "success"

\* a worker suspended in uploadWithRetry: on its request or on its backoff
\* timer, whose delay it was started with
Worker(r, chunk, attempt, phase, delay) ==
    [run |-> r, chunk |-> chunk, attempt |-> attempt, phase |-> phase, delay |-> delay]

WorkersOf(r, bag) == {w \in BagToSet(bag) : w.run = r}

\* the workers that are in flight for a chunk
RECURSIVE InFlight(_, _)
InFlight(S, bag) ==
    IF S = {} THEN 0
    ELSE LET w == CHOOSE x \in S : TRUE
         IN  CopiesIn(w, bag) + InFlight(S \ {w}, bag)

Active(bag) == InFlight(BagToSet(bag), bag)

UploadingChunk(chunk, bag) == InFlight({w \in BagToSet(bag) : w.chunk = chunk}, bag)

\* the first unused run
NextRun == CHOOSE r \in 1..MaxRuns : runs[r] = "unused" /\ \A q \in 1..(r - 1) : runs[q] # "unused"

RunsLeft == \E r \in 1..MaxRuns : runs[r] = "unused"

\* what the code between two awaits reads and writes, as one value
Controller ==
    [file |-> file, queue |-> queue, uploadId |-> heldUploadId, runs |-> runs,
     workers |-> workers, observed |-> observed, completeRequests |-> completeRequests]

Becomes(st) ==
    /\ file' = st.file
    /\ queue' = st.queue
    /\ heldUploadId' = st.uploadId
    /\ runs' = st.runs
    /\ workers' = st.workers
    /\ observed' = st.observed
    /\ completeRequests' = st.completeRequests

\* notify(file): the observer is handed the file
Notify(st) == [st EXCEPT !.observed = st.file.status]

\* the catch block of uploadFile
Failed(st, r) ==
    Notify([st EXCEPT !.file.status = "failed", !.file.error = Message,
                      !.uploadId = 0, !.runs[r] = "done"])

\* the failure branch that keeps the held session id
AfterJoin_KeepsId(st, r, p) ==
    IF p
    THEN Notify([st EXCEPT !.file.status = "paused", !.runs[r] = "done"])
    ELSE IF ErrorCount(st.file.chunks) = 0
    THEN [st EXCEPT !.runs[r] = "complete", !.completeRequests = @ + 1]
    ELSE Notify([st EXCEPT !.file.status = "failed",
                           !.file.error = ChunksFailed(ErrorCount(st.file.chunks)),
                           !.runs[r] = "done"])

\* the failure branch that drops the session id the file carries
AfterJoin_DropsSession(st, r, p) ==
    IF p
    THEN Notify([st EXCEPT !.file.status = "paused", !.runs[r] = "done"])
    ELSE IF ErrorCount(st.file.chunks) = 0
    THEN [st EXCEPT !.runs[r] = "complete", !.completeRequests = @ + 1]
    ELSE Notify([st EXCEPT !.file.status = "failed",
                           !.file.error = ChunksFailed(ErrorCount(st.file.chunks)),
                           !.file.backendUploadId = 0,
                           !.uploadId = 0, !.runs[r] = "done"])

\* uploadFile after Promise.all resolved, up to its await of the complete
\* request or its return; p is this.paused
AfterJoin(st, r, p) ==
    IF p
    THEN Notify([st EXCEPT !.file.status = "paused", !.runs[r] = "done"])
    ELSE IF ErrorCount(st.file.chunks) = 0
    THEN [st EXCEPT !.runs[r] = "complete", !.completeRequests = @ + 1]
    ELSE Notify([st EXCEPT !.file.status = "failed",
                           !.file.error = ChunksFailed(ErrorCount(st.file.chunks)),
                           !.uploadId = 0, !.runs[r] = "done"])

\* a worker of run r shifts the queue and starts attempt 0 of the chunk
TakeChunk(st, r) ==
    LET chunk == Head(st.queue)
    IN  Notify([st EXCEPT !.queue = Tail(@),
                          !.file.chunks[chunk] = "uploading",
                          !.workers = @ (+) SetToBag({Worker(r, chunk, 0, "request", 0)})])

\* processQueue at its loop test, for a worker of run r
ProcessQueue(st, r, p) ==
    IF Len(st.queue) > 0 /\ ~p
    THEN TakeChunk(st, r)
    ELSE st

\* Array.from({length}, () => this.processQueue(file)): each worker runs to
\* its first await or returns
RECURSIVE SpawnWorkers(_, _, _, _)
SpawnWorkers(st, r, p, k) ==
    IF k = 0 THEN st
    ELSE SpawnWorkers(ProcessQueue(st, r, p), r, p, k - 1)

\* workers started on the queue as it was left
StartWorkers_StaleQueue(st, r, p) ==
    LET built == [st EXCEPT !.file.status = "uploading", !.runs[r] = "workers"]
        spawned == SpawnWorkers(built, r, p, MaxParallelChunks)
    IN  IF WorkersOf(r, spawned.workers) = {}
        THEN AfterJoin(spawned, r, p)
        ELSE spawned

\* uploadFile from the line after its first await to its next await
StartWorkers(st, r, p) ==
    LET built == [st EXCEPT !.file.status = "uploading",
                            !.queue = NotSuccess(st.file.chunks),
                            !.runs[r] = "workers"]
        spawned == SpawnWorkers(built, r, p, MaxParallelChunks)
    IN  IF WorkersOf(r, spawned.workers) = {}
        THEN AfterJoin(spawned, r, p)
        ELSE spawned

\* a worker that returns after its first chunk
WorkerDone_NoLoop(st, r, p) ==
    IF WorkersOf(r, st.workers) = {}
    THEN AfterJoin(st, r, p)
    ELSE st

\* a worker that returns once a chunk has failed
WorkerDone_StopsOnError(st, r, p) ==
    IF Len(st.queue) > 0 /\ ~p /\ ErrorCount(st.file.chunks) = 0
    THEN TakeChunk(st, r)
    ELSE IF WorkersOf(r, st.workers) = {}
    THEN AfterJoin(st, r, p)
    ELSE st

\* a worker whose uploadWithRetry has settled: back at the loop test, and
\* the join when it was the last worker of its run to return
WorkerDone(st, r, p) ==
    IF Len(st.queue) > 0 /\ ~p
    THEN TakeChunk(st, r)
    ELSE IF WorkersOf(r, st.workers) = {}
    THEN AfterJoin(st, r, p)
    ELSE st

\* uploadFile from its call to its first await
Enter(st, r) ==
    LET held == IF st.file.backendUploadId = 0 THEN 0 ELSE st.uploadId
    IN  [st EXCEPT !.uploadId = held,
                   !.runs[r] = IF held = 0 THEN "initiate" ELSE "sync"]

\* onFileSelect: createUploadFile, then manager.uploadFile on the new file
UploadFileCall(n) ==
    /\ file.status = "none"
    /\ RunsLeft
    /\ Becomes(Enter([Controller EXCEPT !.file = NewFile(n)], NextRun))
    /\ paused' = FALSE
    /\ UNCHANGED <<cancelling, undisturbed>>

\* pause()
Pause ==
    /\ file.status # "none"
    /\ cancelling = "no"
    /\ ~paused
    /\ paused' = TRUE
    /\ undisturbed' = FALSE
    /\ UNCHANGED <<file, queue, heldUploadId, runs, workers, cancelling, observed,
                   completeRequests>>

\* resume(file), offered while the transfer is paused
ResumeCall ==
    /\ file.status # "none"
    /\ cancelling = "no"
    /\ paused
    /\ RunsLeft
    /\ Becomes(Enter(Notify([Controller EXCEPT !.file.status = "uploading"]), NextRun))
    /\ paused' = FALSE
    /\ undisturbed' = FALSE
    /\ UNCHANGED cancelling

\* the chunks after retryFailed has reset the failed ones
ResetFailed(chunks) ==
    [i \in 1..Len(chunks) |-> IF chunks[i] = "error" THEN "pending" ELSE chunks[i]]

\* retryFailed(file), offered while a chunk is failed and the transfer is
\* not uploading
RetryFailedCall ==
    /\ ErrorCount(file.chunks) > 0
    /\ file.status # "uploading"
    /\ cancelling = "no"
    /\ RunsLeft
    /\ Becomes(Enter(Notify([Controller EXCEPT
                   !.file.chunks = ResetFailed(@),
                   !.uploadId = IF file.backendUploadId # 0
                                THEN file.backendUploadId ELSE @,
                   !.file.status = "uploading",
                   !.file.error = NoError]), NextRun))
    /\ paused' = (file.backendUploadId # 0 /\ paused)
    /\ undisturbed' = FALSE
    /\ UNCHANGED cancelling

\* cancel() from its call to its await of the cancel request, or its return
CancelCall ==
    /\ file.status # "none"
    /\ cancelling = "no"
    /\ paused' = TRUE
    /\ queue' = <<>>
    /\ cancelling' = IF heldUploadId # 0 THEN "awaiting" ELSE "done"
    /\ undisturbed' = FALSE
    /\ UNCHANGED <<file, heldUploadId, runs, workers, observed, completeRequests>>

\* cancel() after its request settled; a failure is swallowed
CancelResume ==
    /\ cancelling = "awaiting"
    /\ cancelling' = "done"
    /\ heldUploadId' = 0
    /\ UNCHANGED <<file, queue, paused, runs, workers, observed, completeRequests,
                   undisturbed>>

\* uploadFile after its await of the initiate request; the session id the
\* service hands out is named after the run that asked for it
InitiateResume(r, ok) ==
    /\ runs[r] = "initiate"
    /\ IF ok
       THEN Becomes(StartWorkers([Controller EXCEPT !.uploadId = r,
                                                    !.file.backendUploadId = r],
                                 r, paused))
       ELSE Becomes(Failed(Controller, r))
    /\ undisturbed' = (undisturbed /\ ok)
    /\ UNCHANGED <<paused, cancelling>>

\* a reconciliation that trusts every local success
Reconcile_KeepsSuccess(chunks, uploaded) ==
    [i \in 1..Len(chunks) |->
        IF (i - 1) \in uploaded THEN "success" ELSE chunks[i]]

\* the reconciliation of syncWithBackend; uploaded holds chunk indexes
Reconcile(chunks, uploaded) ==
    [i \in 1..Len(chunks) |->
        IF (i - 1) \in uploaded THEN "success"
        ELSE IF chunks[i] = "success" THEN "pending"
        ELSE chunks[i]]

\* uploadFile after its await of syncWithBackend: the status request was
\* answered with the uploaded chunk indexes, or it failed and the local
\* state is kept
SyncResume(r, answered, uploaded) ==
    /\ runs[r] = "sync"
    /\ answered \/ uploaded = {}
    /\ uploaded \subseteq 0..(Len(file.chunks) - 1)
    /\ LET synced == IF answered
                     THEN Notify([Controller EXCEPT
                                     !.file.chunks = Reconcile(@, uploaded)])
                     ELSE Controller
       IN  Becomes(StartWorkers(synced, r, paused))
    /\ UNCHANGED <<paused, cancelling, undisturbed>>

\* config.retryDelay * 2 ** attempt
Backoff(attempt) == RETRY_DELAY * 2^attempt

\* uploadWithRetry after its await of uploadChunk, which returned true,
\* returned false or threw; then the worker's loop and the join
AttemptResult(w, outcome) ==
    LET rest == [Controller EXCEPT !.workers = @ (-) SetToBag({w})]
        exhausted == WorkerDone(Notify([rest EXCEPT !.file.chunks[w.chunk] = "error"]),
                                w.run, paused)
    IN  /\ w \in BagToSet(workers)
        /\ w.phase = "request"
        /\ CASE outcome = "true" ->
                  Becomes(WorkerDone(Notify([rest EXCEPT !.file.chunks[w.chunk] = "success"]),
                                     w.run, paused))
             [] outcome = "false" ->
                  IF w.attempt < MaxRetries
                  THEN Becomes(Notify([rest EXCEPT
                           !.file.chunks[w.chunk] = "uploading",
                           !.workers = @ (+) SetToBag({Worker(w.run, w.chunk,
                                                       w.attempt + 1, "request", 0)})]))
                  ELSE Becomes(exhausted)
             [] outcome = "throw" ->
                  IF w.attempt < MaxRetries
                  THEN Becomes([rest EXCEPT
                           !.workers = @ (+) SetToBag({Worker(w.run, w.chunk, w.attempt,
                                                       "backoff", Backoff(w.attempt))})])
                  ELSE Becomes(exhausted)
        /\ undisturbed' = (undisturbed /\ outcome = "true")
        /\ UNCHANGED <<paused, cancelling>>

\* uploadWithRetry after its backoff timer fired: the next attempt starts
BackoffElapsed(w) ==
    /\ w \in BagToSet(workers)
    /\ w.phase = "backoff"
    /\ Becomes(Notify([Controller EXCEPT
           !.file.chunks[w.chunk] = "uploading",
           !.workers = (@ (-) SetToBag({w}))
                       (+) SetToBag({Worker(w.run, w.chunk, w.attempt + 1, "request", 0)})]))
    /\ UNCHANGED <<paused, cancelling, undisturbed>>

\* uploadFile after its await of the complete request
CompleteResume(r, ok) ==
    /\ runs[r] = "complete"
    /\ IF ok
       THEN Becomes(Notify([Controller EXCEPT !.file.status = "completed",
                                              !.uploadId = 0,
                                              !.runs[r] = "done"]))
       ELSE Becomes(Failed(Controller, r))
    /\ undisturbed' = (undisturbed /\ ok)
    /\ UNCHANGED <<paused, cancelling>>

ControllerNext ==
    \/ \E n \in 1..MaxFileChunks : UploadFileCall(n) /\ UNCHANGED <<service, functions, requests>>
    \/ Pause /\ UNCHANGED <<service, functions, requests>>
    \/ ResumeCall /\ UNCHANGED <<service, functions, requests>>
    \/ RetryFailedCall /\ UNCHANGED <<service, functions, requests>>
    \/ CancelCall /\ UNCHANGED <<service, functions, requests>>
    \/ CancelResume /\ UNCHANGED <<service, functions, requests>>
    \/ \E r \in 1..MaxRuns, ok \in BOOLEAN :
           InitiateResume(r, ok) /\ UNCHANGED <<service, functions, requests>>
    \/ \E r \in 1..MaxRuns, answered \in BOOLEAN,
          uploaded \in SUBSET (0..(MaxFileChunks - 1)) :
           SyncResume(r, answered, uploaded) /\ UNCHANGED <<service, functions, requests>>
    \/ \E w \in BagToSet(workers), outcome \in {"true", "false", "throw"} :
           AttemptResult(w, outcome) /\ UNCHANGED <<service, functions, requests>>
    \/ \E w \in BagToSet(workers) : BackoffElapsed(w) /\ UNCHANGED <<service, functions, requests>>
    \/ \E r \in 1..MaxRuns, ok \in BOOLEAN :
           CompleteResume(r, ok) /\ UNCHANGED <<service, functions, requests>>

ControllerSpec == Init /\ [][ControllerNext]_vars

\* a request of the controller is answered, or a backoff timer fires
Settle ==
    \/ CancelResume
    \/ \E r \in 1..MaxRuns, ok \in BOOLEAN : InitiateResume(r, ok)
    \/ \E r \in 1..MaxRuns, answered \in BOOLEAN,
          uploaded \in SUBSET (0..(MaxFileChunks - 1)) : SyncResume(r, answered, uploaded)
    \/ \E w \in BagToSet(workers), outcome \in {"true", "false", "throw"} :
           AttemptResult(w, outcome)
    \/ \E w \in BagToSet(workers) : BackoffElapsed(w)
    \/ \E r \in 1..MaxRuns, ok \in BOOLEAN : CompleteResume(r, ok)

\* every request is answered and every timer fires: the controller does not
\* stand still while one of them is outstanding
FairControllerSpec ==
    ControllerSpec /\ WF_vars(Settle /\ UNCHANGED <<service, functions, requests>>)

\* ------------------------------------------------- functions of the client
\* the status route answers with zero-based chunk numbers:
\* session.uploadedParts.map((p) => p.partNumber - 1)
UploadedChunks(parts) == {p - 1 : p \in parts}

\* FileChunk.status
ChunkStatuses == {"pending", "uploading", "success", "error"}

LocalChunks == UNION {[1..n -> ChunkStatuses] : n \in 1..MaxLocalChunks}

\* any local chunk statuses and any set of part numbers the server reports
ReconcileInit ==
    /\ ControllerInit
    /\ ServiceInit
    /\ \E chunks \in LocalChunks, parts \in SUBSET (1..MaxLocalChunks) :
          /\ parts \subseteq 1..Len(chunks)
          /\ args = [fn |-> "syncWithBackend", chunks |-> chunks, parts |-> parts]
    /\ returned = <<>>
    /\ requests = EmptyBag

\* syncWithBackend with its status request answered: file.chunks afterwards
SyncWithBackend ==
    /\ args.fn = "syncWithBackend"
    /\ returned = <<>>
    /\ returned' = <<Reconcile(args.chunks, UploadedChunks(args.parts))>>
    /\ UNCHANGED <<args, service, client, requests>>

ReconcileSpec == ReconcileInit /\ [][SyncWithBackend]_vars

Min(a, b) == IF a < b THEN a ELSE b

\* a planner that does not clamp the last chunk to the file
CreateFileChunks_NoClamp(size, chunkSize) ==
    LET totalChunks == Ceil(size, chunkSize)
    IN  [k \in 1..totalChunks |->
            [chunkIndex |-> k - 1, totalChunks |-> totalChunks,
             startByte |-> (k - 1) * chunkSize,
             endByte |-> (k - 1) * chunkSize + chunkSize,
             retryCount |-> 0, status |-> "pending"]]

\* createFileChunks(file, chunkSize), with file.size for the file
CreateFileChunks(size, chunkSize) ==
    LET totalChunks == Ceil(size, chunkSize)
    IN  [k \in 1..totalChunks |->
            [chunkIndex |-> k - 1, totalChunks |-> totalChunks,
             startByte |-> (k - 1) * chunkSize,
             endByte |-> Min((k - 1) * chunkSize + chunkSize, size),
             retryCount |-> 0, status |-> "pending"]]

\* a file that is not empty and a positive chunk size
PlannerInit ==
    /\ ControllerInit
    /\ ServiceInit
    /\ \E size \in 1..MaxFileSize, chunkSize \in 1..MaxChunkSize :
          args = [fn |-> "createFileChunks", size |-> size, chunkSize |-> chunkSize]
    /\ returned = <<>>
    /\ requests = EmptyBag

\* one call of createFileChunks on the same file
CreateFileChunksCall ==
    /\ args.fn = "createFileChunks"
    /\ Len(returned) < 2
    /\ returned' = Append(returned, CreateFileChunks(args.size, args.chunkSize))
    /\ UNCHANGED <<args, service, client, requests>>

PlannerSpec == PlannerInit /\ [][CreateFileChunksCall]_vars

\* an option left out of the Partial<UploadConfig>
Undefined == 0 - 1

\* MIN_CHUNK of the constructor
MIN_CHUNK == 5 * 1024 * 1024

Max(a, b) == IF a > b THEN a ELSE b

\* option || fallback: an option that is left out or 0 is falsy
OrDefault(option, fallback) ==
    IF option = Undefined \/ option = 0 THEN fallback ELSE option

\* this.config as the constructor of ChunkUploadManager sets it
NewConfig(c) ==
    [chunkSize |-> Max(OrDefault(c.chunkSize, MIN_CHUNK), MIN_CHUNK),
     maxParallelChunks |-> OrDefault(c.maxParallelChunks, 3),
     maxRetries |-> OrDefault(c.maxRetries, 3),
     retryDelay |-> OrDefault(c.retryDelay, RETRY_DELAY)]

\* the options a caller may hand to the constructor
ConfigOptions ==
    [chunkSize : {Undefined, MIN_CHUNK - 1, MIN_CHUNK + 1},
     maxParallelChunks : {Undefined, 0, 2},
     maxRetries : {Undefined} \cup 0..MaxRetriesOption,
     retryDelay : {Undefined, 0, 500}]

ConfigInit ==
    /\ ControllerInit
    /\ ServiceInit
    /\ \E c \in ConfigOptions : args = [fn |-> "constructor", config |-> c]
    /\ returned = <<>>
    /\ requests = EmptyBag

\* new ChunkUploadManager(config), and a chunk it is about to upload
Construct ==
    /\ args.fn = "constructor"
    /\ returned = <<>>
    /\ returned' = <<[config |-> NewConfig(args.config), attempts |-> 0,
                      status |-> "pending"]>>
    /\ UNCHANGED <<args, service, client, requests>>

\* one pass of the loop of uploadWithRetry on that chunk: the loop test,
\* the request, and its outcome; a pass that fails is followed by another
\* one while attempt <= config.maxRetries
UploadAttempt(ok) ==
    /\ args.fn = "constructor"
    /\ returned # <<>>
    /\ returned[1].status \in {"pending", "uploading"}
    /\ LET attempt == returned[1].attempts
           maxRetries == returned[1].config.maxRetries
       IN  /\ attempt <= maxRetries
           /\ returned' = <<[returned[1] EXCEPT
                  !.attempts = attempt + 1,
                  !.status = IF ok THEN "success"
                             ELSE IF attempt + 1 <= maxRetries THEN "uploading"
                             ELSE "error"]>>
    /\ UNCHANGED <<args, service, client, requests>>

ConfigNext ==
    \/ Construct
    \/ \E ok \in BOOLEAN : UploadAttempt(ok)

ConfigSpec == ConfigInit /\ [][ConfigNext]_vars

\* file.chunks.filter(c => c.status === 'success').length
SuccessCount(chunks) == Cardinality({i \in 1..Len(chunks) : chunks[i] = "success"})

\* a file cut into chunks of config.chunkSize by createUploadFile, with
\* any status for each chunk
ProgressInit ==
    /\ ControllerInit
    /\ ServiceInit
    /\ \E chunks \in LocalChunks, chunkSize \in 1..MaxChunkSize :
          \E size \in ((Len(chunks) - 1) * chunkSize + 1)..(Len(chunks) * chunkSize) :
              args = [fn |-> "updateProgress", chunks |-> chunks,
                      chunkSize |-> chunkSize, totalSize |-> size]
    /\ returned = <<>>
    /\ requests = EmptyBag

\* updateProgress(file): file.progress, as the fraction num / den, and
\* file.uploadedSize
UpdateProgress ==
    /\ args.fn = "updateProgress"
    /\ returned = <<>>
    /\ LET done == SuccessCount(args.chunks)
       IN  returned' = <<[progress |-> [num |-> done * 100, den |-> Len(args.chunks)],
                          uploadedSize |-> done * args.chunkSize]>>
    /\ UNCHANGED <<args, service, client, requests>>

ProgressSpec == ProgressInit /\ [][UpdateProgress]_vars

\* ------------------------------------------- the controller and the service
\* The controller with the service of this repository behind its requests.
\* The service handles a request in the step in which the controller
\* receives the answer, its sessions do not expire meanwhile, and a request
\* fails where the service or the storage adapter fails it (the answer to
\* a status request may also be lost).  Every request carries the uploadId
\* the controller held when it sent it.

\* an outstanding request or timer and the uploadId it was sent with
Request(w, id) == [worker |-> w, uploadId |-> id]

\* the status or complete request of run r, and the cancel request
RunRequest(r, kind) == Worker(r, 0, 0, kind, 0)

NoRequest == Request(RunRequest(0, "none"), 0)

\* requests after a step of the controller in which e was answered: the
\* next attempt of a chunk keeps the uploadId uploadWithRetry was called
\* with, a chunk taken from the queue is sent with this.uploadId
Track(e) ==
    LET w == e.worker
        chunkRequest == e # NoRequest /\ w.phase \in {"request", "backoff"}
        rest == IF e = NoRequest THEN requests ELSE requests (-) SetToBag({e})
        base == IF chunkRequest THEN workers (-) SetToBag({w}) ELSE workers
        added == workers' (-) base
        Continues(v) == /\ chunkRequest
                        /\ v.run = w.run
                        /\ v.chunk = w.chunk
                        /\ ~(v.attempt = 0 /\ v.phase = "request")
        SentWith(v) == IF Continues(v) THEN e.uploadId ELSE heldUploadId'
        chunkRequests == {Request(v, SentWith(v)) : v \in BagToSet(added)}
        runRequests == {Request(RunRequest(r, runs'[r]), heldUploadId') :
                           r \in {q \in 1..MaxRuns : /\ runs'[q] \in {"sync", "complete"}
                                                     /\ runs'[q] # runs[q]}}
        cancelRequests == IF cancelling = "no" /\ cancelling' = "awaiting"
                          THEN {Request(RunRequest(0, "cancel"), heldUploadId)}
                          ELSE {}
    IN  requests' = rest (+) [x \in chunkRequests |-> CopiesIn(x.worker, added)]
                         (+) SetToBag(runRequests \cup cancelRequests)

Outstanding(phases) == {e \in BagToSet(requests) : e.worker.phase \in phases}

\* a call on the controller: no request is answered
TransferCall(call) ==
    /\ call
    /\ Track(NoRequest)
    /\ UNCHANGED <<service, functions>>

\* the initiate request of run r is answered: the session is created under
\* the id the controller then holds, or the storage adapter fails
InitiateAnswered(r, adapterOk) ==
    /\ InitiateResume(r, adapterOk)
    /\ Track(NoRequest)
    /\ IF adapterOk
       THEN /\ sessions' = [sessions EXCEPT ![r] =
                   [status |-> "pending", totalChunks |-> Len(file.chunks),
                    uploadedParts |-> <<>>, expiresAt |-> now + UPLOAD_EXPIRATION]]
            /\ uploadSessions' = uploadSessions \cup {r}
       ELSE UNCHANGED <<sessions, uploadSessions>>
    /\ UNCHANGED <<now, pending, reply, history, calls, functions>>

\* the status request of a run is answered: 200 with the uploaded chunks
\* of a session the store holds, 404 otherwise; or the answer is lost
StatusAnswered(e, delivered) ==
    /\ e \in Outstanding({"sync"})
    /\ IF delivered /\ e.uploadId \in uploadSessions
       THEN SyncResume(e.worker.run, TRUE,
                       UploadedChunks(PartNumbers(sessions[e.uploadId].uploadedParts)))
       ELSE SyncResume(e.worker.run, FALSE, {})
    /\ Track(e)
    /\ UNCHANGED <<service, functions>>

\* the chunk request of a worker is answered by uploadChunk
ChunkAnswered(e, adapterOk) ==
    LET w == e.worker
        id == e.uploadId
        outcome == IF id \in uploadSessions
                   THEN UploadChunkOutcome(TRUE, sessions[id], now, w.chunk - 1)
                   ELSE "SessionNotFound"
    IN  /\ e \in Outstanding({"request"})
        /\ CASE outcome = "upload" /\ adapterOk ->
                  /\ AttemptResult(w, "true")
                  /\ sessions' = [sessions EXCEPT ![id] = SavePart(@, w.chunk, ETags[1])]
             [] outcome = "existing" ->
                  /\ AttemptResult(w, "true")
                  /\ UNCHANGED sessions
             [] outcome = "SessionExpired" ->
                  /\ AttemptResult(w, "throw")
                  /\ sessions' = [sessions EXCEPT ![id].status = "failed"]
             [] OTHER ->
                  /\ AttemptResult(w, "throw")
                  /\ UNCHANGED sessions
        /\ Track(e)
        /\ UNCHANGED <<uploadSessions, now, pending, reply, history, calls, functions>>

\* the backoff timer of a worker fires
TimerFired(e) ==
    /\ e \in Outstanding({"backoff"})
    /\ BackoffElapsed(e.worker)
    /\ Track(e)
    /\ UNCHANGED <<service, functions>>

\* the complete request of a run is answered by completeUpload
CompleteAnswered(e, adapterOk) ==
    LET id == e.uploadId
        outcome == IF id \in uploadSessions
                   THEN CompleteUploadOutcome(TRUE, sessions[id])
                   ELSE "SessionNotFound"
    IN  /\ e \in Outstanding({"complete"})
        /\ CASE outcome = "complete" ->
                  /\ CompleteResume(e.worker.run, adapterOk)
                  /\ sessions' = [sessions EXCEPT
                         ![id].uploadedParts = SortParts(UniqueParts(@)),
                         ![id].status = IF adapterOk THEN "completed" ELSE @]
             [] outcome = "already" ->
                  /\ CompleteResume(e.worker.run, TRUE)
                  /\ UNCHANGED sessions
             [] outcome = "IncompleteUpload" ->
                  /\ CompleteResume(e.worker.run, FALSE)
                  /\ sessions' = [sessions EXCEPT ![id].uploadedParts = UniqueParts(@)]
             [] OTHER ->
                  /\ CompleteResume(e.worker.run, FALSE)
                  /\ UNCHANGED sessions
        /\ Track(e)
        /\ UNCHANGED <<uploadSessions, now, pending, reply, history, calls, functions>>

\* the cancel request is answered by cancelUpload
CancelAnswered(e, abortOk) ==
    LET id == e.uploadId
        outcome == IF id \in uploadSessions
                   THEN CancelUploadOutcome(TRUE, sessions[id])
                   ELSE "SessionNotFound"
    IN  /\ e \in Outstanding({"cancel"})
        /\ CancelResume
        /\ IF outcome = "abort" /\ abortOk
           THEN /\ sessions' = [sessions EXCEPT ![id].status = "cancelled"]
                /\ uploadSessions' = uploadSessions \ {id}
           ELSE UNCHANGED <<sessions, uploadSessions>>
        /\ Track(e)
        /\ UNCHANGED <<now, pending, reply, history, calls, functions>>

TransferNext ==
    \/ \E n \in 1..MaxFileChunks : TransferCall(UploadFileCall(n))
    \/ TransferCall(Pause)
    \/ TransferCall(ResumeCall)
    \/ TransferCall(RetryFailedCall)
    \/ TransferCall(CancelCall)
    \/ \E r \in 1..MaxRuns, ok \in BOOLEAN : InitiateAnswered(r, ok)
    \/ \E e \in BagToSet(requests), ok \in BOOLEAN : StatusAnswered(e, ok)
    \/ \E e \in BagToSet(requests), ok \in BOOLEAN : ChunkAnswered(e, ok)
    \/ \E e \in BagToSet(requests) : TimerFired(e)
    \/ \E e \in BagToSet(requests), ok \in BOOLEAN : CompleteAnswered(e, ok)
    \/ \E e \in BagToSet(requests), ok \in BOOLEAN : CancelAnswered(e, ok)

TransferSpec == Init /\ [][TransferNext]_vars

\* ------------------------------------------------------------ properties
Stored(s) == s \in uploadSessions

DistinctParts(s) == Cardinality(PartNumbers(sessions[s].uploadedParts))

\* uploadPart invocations for a part that are outstanding or have been saved
Uploads(s, pn) ==
    Entries(sessions[s].uploadedParts, pn)
    + Copies({c \in Suspended("chunk") : c.sid = s /\ c.part = pn})

\* C1: an uploadChunk call issued after an earlier call for the same session
\* and part number has returned a tag, and not rejected by the session checks,
\* returns that same tag, stores nothing and does not call uploadPart
C1_SequentialIdempotence ==
    [][\A s \in SessionIds, i \in 0..(MaxChunks - 1) :
          ( /\ returnedTags[s][i + 1] # {}
            /\ UploadChunkOutcome(Stored(s), sessions[s], now, i) \in {"existing", "upload"}
            /\ UploadChunkCall(s, i) )
          => ( /\ reply' = Reply("chunk", s, "ok", reply'.value)
               /\ returnedTags[s][i + 1] = {reply'.value}
               /\ sessions' = sessions
               /\ pending' = pending )]_vars

\* C2: a session never holds two entries for one part number, and uploadPart
\* is never outstanding or saved more than once for one part number
C2_NoDuplicateParts ==
    \A s \in SessionIds, pn \in 1..MaxChunks : Uploads(s, pn) <= 1

\* C3: completeUpload on a stored, not completed session with fewer distinct
\* part numbers than totalChunks throws IncompleteUpload, does not call
\* completeMultipartUpload and leaves the status as it was
C3_CompletenessGate ==
    [][\A s \in SessionIds :
          ( /\ Stored(s)
            /\ sessions[s].status # "completed"
            /\ DistinctParts(s) < sessions[s].totalChunks
            /\ CompleteUploadCall(s) )
          => ( /\ reply' = Reply("complete", s, "IncompleteUpload", NoValue)
               /\ completeCalls' = completeCalls
               /\ pending' = pending
               /\ sessions'[s].status = sessions[s].status )]_vars

C3_Witness ==
    /\ reply.op = "complete"
    /\ reply.outcome = "IncompleteUpload"
    /\ sessions[reply.sid].uploadedParts # <<>>
    /\ sessions[reply.sid].status = "uploading"
    /\ completeCalls[reply.sid] = 0

\* C4: completeMultipartUpload was invoked for a session, or the session is
\* completed, only if its stored part numbers are exactly 1..totalChunks
C4_NoPartialCompletion ==
    \A s \in SessionIds :
        (completeCalls[s] > 0 \/ sessions[s].status = "completed")
        => PartNumbers(sessions[s].uploadedParts) = 1..sessions[s].totalChunks

C4_Witness ==
    \E s \in SessionIds :
        /\ sessions[s].status = "completed"
        /\ sessions[s].totalChunks = MaxChunks
        /\ completeCalls[s] = 1

\* C5: once completeUpload has returned a location for a session, a later
\* completeUpload on the stored session returns that same location and does
\* not call completeMultipartUpload
C5_CompleteIdempotent ==
    [][\A s \in SessionIds :
          (Stored(s) /\ returnedUrls[s] # {} /\ CompleteUploadCall(s))
          => ( /\ reply' = Reply("complete", s, "ok", reply'.value)
               /\ returnedUrls[s] = {reply'.value}
               /\ completeCalls' = completeCalls )]_vars

\* C6: once a session is completed its status and its parts never change
C6_CompletedImmutable ==
    [][\A s \in SessionIds :
          sessions[s].status = "completed"
          => ( /\ sessions'[s].status = "completed"
               /\ sessions'[s].uploadedParts = sessions[s].uploadedParts )]_vars

\* C7: the sweep never deletes a session whose status is completed
C7_NoSweepOfCompleted ==
    [][\A c \in Suspended("sweep"), ok \in BOOLEAN :
          (sessions[c.sid].status = "completed" /\ CleanupResume(c, ok))
          => (Stored(c.sid) => Stored(c.sid)')]_vars

\* C8: the scan starts an abort for exactly the stored sessions that are
\* expired and not completed; each of them is eventually out of the store,
\* whether the abort succeeds or fails; the sweep deletes no other session
C8_ExpirySweep ==
    /\ [][CleanupExpiredSessions =>
            \A s \in SessionIds :
                IF Stored(s) /\ now > sessions[s].expiresAt
                             /\ sessions[s].status # "completed"
                THEN /\ Count("sweep", s)' = Count("sweep", s) + 1
                     /\ abortCalls'[s] = abortCalls[s] + 1
                ELSE /\ Count("sweep", s)' = Count("sweep", s)
                     /\ abortCalls'[s] = abortCalls[s]]_vars
    /\ [][\A s \in SessionIds :
            (Stored(s) /\ ~Stored(s)' /\ sessions'[s].status # "cancelled")
            => Count("sweep", s) > 0]_vars
    /\ \A s \in SessionIds : (Count("sweep", s) > 0) ~> ~Stored(s)

C8_Witness ==
    /\ reply.op = "sweep"
    /\ reply.outcome = "removed"
    /\ reply.value = "abort-failed"
    /\ ~Stored(reply.sid)

\* C9: a session that uploadChunk has marked failed on expiry never becomes
\* pending, uploading or completed again and gains no part
C9_NoResurrection ==
    [][\A s \in SessionIds :
          sessions[s].status = "failed"
          => ( /\ sessions'[s].status \in {"failed", "cancelled"}
               /\ Len(sessions'[s].uploadedParts) <= Len(sessions[s].uploadedParts) )]_vars

\* C10: uploadChunk on a stored, not completed session past its deadline
\* throws SessionExpired and marks the session failed, saves no part and
\* does not call uploadPart, whatever the chunk index
C10_ExpiredRejected ==
    [][\A s \in SessionIds, i \in ChunkIndexes :
          ( /\ Stored(s)
            /\ sessions[s].status # "completed"
            /\ now > sessions[s].expiresAt
            /\ UploadChunkCall(s, i) )
          => ( /\ reply' = Reply("chunk", s, "SessionExpired", NoValue)
               /\ sessions'[s] = [sessions[s] EXCEPT !.status = "failed"]
               /\ pending' = pending )]_vars

C10_Witness ==
    /\ reply.op = "chunk"
    /\ reply.outcome = "SessionExpired"
    /\ sessions[reply.sid].status = "failed"
    /\ sessions[reply.sid].uploadedParts # <<>>

\* C11: once cancelUpload has succeeded for a session, the session is out of
\* the store (getUploadStatus finds nothing) and abortMultipartUpload has been
\* invoked exactly once for it, also when a sweep or a second cancelUpload
\* for the session overlaps
C11_CancelRemovesAbortsOnce ==
    \A s \in SessionIds :
        sessions[s].status = "cancelled"
        => (~Stored(s) /\ abortCalls[s] = 1)

\* C12: cancelUpload on a stored, completed session throws
\* CannotCancelCompleted, invokes no abort and leaves the store and the
\* session as they were; on an id the store does not hold it throws
\* SessionNotFound and changes no session
C12_CancelRejected ==
    [][\A s \in SessionIds :
          /\ ( /\ Stored(s)
                /\ sessions[s].status = "completed"
                /\ CancelUploadCall(s) )
             => ( /\ reply' = Reply("cancel", s, "CannotCancelCompleted", NoValue)
                  /\ abortCalls' = abortCalls
                  /\ pending' = pending
                  /\ Stored(s)'
                  /\ sessions' = sessions )
          /\ (~Stored(s) /\ CancelUploadCall(s))
             => ( /\ reply' = Reply("cancel", s, "SessionNotFound", NoValue)
                  /\ abortCalls' = abortCalls
                  /\ pending' = pending
                  /\ uploadSessions' = uploadSessions
                  /\ sessions' = sessions )]_vars

C12_Witness ==
    /\ reply.op = "cancel"
    /\ reply.outcome = "CannotCancelCompleted"
    /\ Stored(reply.sid)
    /\ sessions[reply.sid].status = "completed"
    /\ abortCalls[reply.sid] = 0

\* C13: no chunk is being uploaded by two workers at the same time, over any
\* sequence of uploadFile, pause, resume and retryFailed calls
C13_OneWorkerPerChunk ==
    \A chunk \in 1..Len(file.chunks) : UploadingChunk(chunk, workers) <= 1

\* C14: the chunk uploads in flight for the controller never exceed
\* maxParallelChunks, also when resume is called while uploads started
\* before the pause are in flight
C14_BoundedParallelism ==
    Active(workers) <= MaxParallelChunks

\* C15: while every request has been answered with success and uploadFile
\* is the only call made, the run it started ends, and it has then marked
\* every chunk success, sent one complete request, marked the transfer
\* completed and released the held session id
C15_ReliableRunCompletes ==
    /\ [](undisturbed /\ runs[1] = "done"
            => ( /\ file.status = "completed"
                 /\ AllSuccess(file.chunks)
                 /\ completeRequests = 1
                 /\ heldUploadId = 0 ))
    /\ [](undisturbed => completeRequests <= 1)
    /\ (file.status # "none") ~> (~undisturbed \/ runs[1] = "done")

C15_Witness ==
    /\ undisturbed
    /\ runs[1] = "done"
    /\ file.status = "completed"
    /\ Len(file.chunks) = MaxFileChunks
    /\ MaxFileChunks > MaxParallelChunks

\* C16: an upload attempt that fails is numbered at most maxRetries; when
\* another attempt remains the worker then waits retryDelay * 2^attempt
\* before it, and after the last attempt it does not wait and the chunk is
\* marked error (or is at once taken from the queue again)
C16_RetryBackoff ==
    [][\A w \in BagToSet(workers), outcome \in {"false", "throw"} :
          AttemptResult(w, outcome)
          => ( /\ w.attempt <= MaxRetries
               /\ IF w.attempt < MaxRetries
                  THEN Worker(w.run, w.chunk, w.attempt, "backoff",
                              RETRY_DELAY * 2^w.attempt) \in BagToSet(workers')
                  ELSE /\ \/ file'.chunks[w.chunk] = "error"
                          \/ Worker(w.run, w.chunk, 0, "request", 0) \in BagToSet(workers')
                       /\ \A v \in BagToSet(workers') :
                              (v.run = w.run /\ v.chunk = w.chunk /\ v.phase = "backoff")
                              => CopiesIn(v, workers') <= CopiesIn(v, workers) )]_vars

\* C17: a complete request is sent only when every chunk of the transfer is
\* success, also in runs that overlap a pause followed by a resume; and the
\* transfer becomes completed only by a complete request that succeeded
C17_CompleteOnlyWhenAllSuccess ==
    [][ /\ completeRequests' > completeRequests => AllSuccess(file'.chunks)
        /\ (file'.status = "completed" /\ file.status # "completed")
           => \E r \in 1..MaxRuns : CompleteResume(r, TRUE) ]_vars

\* C18: when the last worker of a run returns with no pause requested and at
\* least one chunk in error, the transfer is marked failed with the number
\* of error chunks in its message, no complete request is sent, the
\* controller forgets the session id and the file keeps its backendUploadId
C18_FailureOutcome ==
    [][\A r \in 1..MaxRuns :
          ( /\ runs[r] = "workers"
            /\ runs'[r] # "workers"
            /\ ~paused
            /\ ErrorCount(file'.chunks) > 0 )
          => ( /\ runs'[r] = "done"
               /\ file'.status = "failed"
               /\ file'.error = ChunksFailed(ErrorCount(file'.chunks))
               /\ completeRequests' = completeRequests
               /\ heldUploadId' = 0
               /\ file'.backendUploadId # 0
               /\ file'.backendUploadId = file.backendUploadId )]_vars

C18_Witness ==
    /\ file.status = "failed"
    /\ file.error = ChunksFailed(2)
    /\ heldUploadId = 0
    /\ file.backendUploadId # 0
    /\ completeRequests = 0
    /\ \A r \in 1..MaxRuns : runs[r] \in {"done", "unused"}

\* C19: after pause() is requested during a run no worker dequeues another
\* chunk, and when the workers of the run have all returned the run ends
\* with the transfer paused, no complete request sent, and the session id
\* still held by the controller
C19_CooperativePause ==
    [][ /\ paused
           => \A w \in BagToSet(workers') :
                 (w.attempt = 0 /\ w.phase = "request")
                 => w \in BagToSet(workers)
        /\ \A r \in 1..MaxRuns :
              ( /\ paused
                /\ cancelling = "no"
                /\ runs[r] = "workers"
                /\ runs'[r] # "workers" )
              => ( /\ runs'[r] = "done"
                   /\ file'.status = "paused"
                   /\ completeRequests' = completeRequests
                   /\ heldUploadId' # 0 ) ]_vars

\* C20: once cancel() has been called on the controller the status of the
\* transfer changes no more and observers are notified of no further status,
\* whatever an upload run still in progress at the call does afterwards
C20_CancelEndsLifecycle ==
    [][cancelling # "no"
       => (file'.status = file.status /\ observed' = observed)]_vars

\* C21: when cancel() returns, with its cancel request answered or failed,
\* the pause flag is set, the work queue is empty and the controller holds
\* no session id; the cancel request is sent only if a session id was held
C21_CancelEffects ==
    [][ /\ (cancelling # "done" /\ cancelling' = "done")
           => (paused' /\ queue' = <<>> /\ heldUploadId' = 0)
        /\ (cancelling = "no" /\ cancelling' = "awaiting") => heldUploadId # 0
        /\ (cancelling = "no" /\ cancelling' = "done") => heldUploadId = 0 ]_vars

\* C22: retryFailed on a transfer that carries a session id, whatever the
\* controller did before, turns every failed chunk back to pending, takes up
\* the carried id and asks for its status instead of initiating; and once
\* that status is reconciled, with any set of uploaded chunks, the run it
\* started has every chunk that is not success in flight or in its queue
C22_RetryFailedReenters ==
    [][ (RetryFailedCall /\ file.backendUploadId # 0)
        => LET r == NextRun
           IN  /\ file'.chunks = ResetFailed(file.chunks)
               /\ ErrorCount(file'.chunks) = 0
               /\ runs'[r] = "sync"
               /\ heldUploadId' = file.backendUploadId
               /\ \A uploaded \in SUBSET (0..(Len(file.chunks) - 1)) :
                     LET after == StartWorkers(
                                     [Controller' EXCEPT
                                         !.file.chunks = Reconcile(@, uploaded)],
                                     r, paused')
                     IN  \A i \in 1..Len(file.chunks) :
                            after.file.chunks[i] # "success"
                            => \/ after.file.chunks[i] = "uploading"
                               \/ /\ after.runs[r] = "workers"
                                  /\ \E k \in 1..Len(after.queue) : after.queue[k] = i ]_vars

\* C23: after reconciliation every chunk whose part number (index + 1) the
\* server reported is success, every chunk that was success locally and
\* whose part number was not reported is pending, and every other chunk
\* keeps its status; local [success, success, pending, pending] with only
\* part 1 reported gives [success, pending, pending, pending]
C23_ReconciliationResult ==
    /\ returned # <<>>
       => /\ Len(returned[1]) = Len(args.chunks)
          /\ \A i \in 1..Len(args.chunks) :
                returned[1][i] = IF i \in args.parts THEN "success"
                                 ELSE IF args.chunks[i] = "success" THEN "pending"
                                 ELSE args.chunks[i]
    /\ (/\ returned # <<>>
        /\ args.chunks = <<"success", "success", "pending", "pending">>
        /\ args.parts = {1})
       => returned[1] = <<"success", "pending", "pending", "pending">>

C23_Witness ==
    /\ args.chunks = <<"success", "success", "pending", "pending">>
    /\ args.parts = {1}
    /\ returned = << <<"success", "pending", "pending", "pending">> >>

\* the positions a sequence of chunk positions holds
Elements(q) == {q[k] : k \in 1..Len(q)}

\* C24: a run started while a session id is held asks for the status first;
\* it has no chunk in flight before its reconciliation has finished, and
\* the chunks it then dequeues or leaves in the queue are exactly the chunks
\* that are not success after the reconciliation
C24_ReconcileBeforeScheduling ==
    [][ \A r \in 1..MaxRuns :
          /\ (runs[r] = "unused" /\ runs'[r] # "unused" /\ heldUploadId' # 0)
             => runs'[r] = "sync"
          /\ runs'[r] = "sync" => WorkersOf(r, workers') = {}
          /\ \A answered \in BOOLEAN, uploaded \in SUBSET (0..(MaxFileChunks - 1)) :
                SyncResume(r, answered, uploaded)
                => LET reconciled == IF answered
                                     THEN Reconcile(file.chunks, uploaded)
                                     ELSE file.chunks
                       taken == {w.chunk : w \in WorkersOf(r, workers') \ BagToSet(workers)}
                   IN  /\ taken \cup Elements(queue') = Elements(NotSuccess(reconciled))
                       /\ \A i \in 1..Len(file.chunks) \ taken :
                             file'.chunks[i] = reconciled[i] ]_vars

C24_Witness ==
    /\ runs[1] = "done"
    /\ runs[2] = "workers"
    /\ file.status = "uploading"
    /\ heldUploadId = 1
    /\ file.backendUploadId = 1
    /\ WorkersOf(1, workers) = {}
    /\ WorkersOf(2, workers) # {}
    /\ queue # <<>>
    /\ \E i \in 1..Len(file.chunks) : file.chunks[i] = "success"

\* the bytes the chunks of a plan cover, added up
RECURSIVE TotalLength(_)
TotalLength(chunks) ==
    IF chunks = <<>> THEN 0
    ELSE (Head(chunks).endByte - Head(chunks).startByte) + TotalLength(Tail(chunks))

\* C25: for a file size and a chunk size above zero createFileChunks returns
\* ceil(fileSize / chunkSize) chunks with the indices 0..count-1 in order,
\* chunk i covering [i * chunkSize, min((i + 1) * chunkSize, fileSize)): the
\* ranges are contiguous, disjoint and not empty, their lengths add up to
\* fileSize, and a second call with the same inputs returns the same ranges
C25_PlannerPartition ==
    \A c \in 1..Len(returned) :
        LET chunks == returned[c]
            count == Len(chunks)
        IN  /\ count * args.chunkSize >= args.size
            /\ (count - 1) * args.chunkSize < args.size
            /\ \A k \in 1..count :
                  /\ chunks[k].chunkIndex = k - 1
                  /\ chunks[k].startByte = (k - 1) * args.chunkSize
                  /\ chunks[k].endByte = Min(k * args.chunkSize, args.size)
                  /\ chunks[k].startByte < chunks[k].endByte
                  /\ chunks[k].startByte = IF k = 1 THEN 0 ELSE chunks[k - 1].endByte
            /\ chunks[count].endByte = args.size
            /\ TotalLength(chunks) = args.size
            /\ chunks = returned[1]

C25_Witness ==
    /\ args.chunkSize > 1
    /\ args.size > 2 * args.chunkSize
    /\ args.size % args.chunkSize # 0
    /\ Len(returned) = 2
    /\ Len(returned[2]) > 2

\* C26: initiate with an effective chunk size below the minimum part size
\* fails with InvalidChunkSize and stores no session, whatever the storage
\* adapter would answer; otherwise, if the adapter's initiate fails no
\* session is stored, and if it succeeds one new session is stored with
\* totalChunks = ceil(fileSize / chunkSize), status pending, no parts and
\* expiresAt one session lifetime after its creation
C26_InitiateOutcome ==
    [][ \A f \in FileSizes, c \in ChunkSizes, ok \in BOOLEAN :
          InitiateUpload(f, c, ok)
          => LET size == IF c = 0 THEN CHUNK_SIZE ELSE c
             IN  IF size < MIN_CHUNK_SIZE \/ ~ok
                 THEN /\ reply'.op = "initiate"
                      /\ reply'.outcome = IF size < MIN_CHUNK_SIZE
                                          THEN "InvalidChunkSize" ELSE "AdapterError"
                      /\ sessions' = sessions
                      /\ uploadSessions' = uploadSessions
                 ELSE \E s \in SessionIds \ uploadSessions :
                        /\ reply' = Reply("initiate", s, "ok", NoValue)
                        /\ sessions[s] = NoSession
                        /\ uploadSessions' = uploadSessions \cup {s}
                        /\ \A o \in SessionIds \ {s} : sessions'[o] = sessions[o]
                        /\ sessions'[s].status = "pending"
                        /\ sessions'[s].uploadedParts = <<>>
                        /\ sessions'[s].totalChunks * size >= f
                        /\ (sessions'[s].totalChunks - 1) * size < f
                        /\ sessions'[s].expiresAt = now' + UPLOAD_EXPIRATION ]_vars

C26_Witness ==
    /\ reply = Reply("initiate", 0, "InvalidChunkSize", NoValue)
    /\ uploadSessions = {}
    /\ \A s \in SessionIds : sessions[s] = NoSession
    /\ calls > 0

\* every part number a session holds lies in 1..totalChunks
PartsInRange ==
    \A s \in SessionIds :
        PartNumbers(sessions[s].uploadedParts) \subseteq 1..sessions[s].totalChunks

OutOfRange(s, i) == i < 0 \/ i >= sessions[s].totalChunks

\* C27 as stated: every part number of every session lies in
\* 1..totalChunks, and an uploadChunk on a stored session with a chunk index
\* outside 0..totalChunks-1 fails with InvalidPartNumber, adds no part,
\* leaves the status as it is and calls no uploadPart
C27_PartNumbersInRange ==
    /\ []PartsInRange
    /\ [][ \A s \in SessionIds, i \in ChunkIndexes :
              (UploadChunkCall(s, i) /\ s \in uploadSessions /\ OutOfRange(s, i))
              => /\ reply' = Reply("chunk", s, "InvalidPartNumber", NoValue)
                 /\ sessions' = sessions
                 /\ pending' = pending ]_vars

\* C27 amended: every part number of every session lies in 1..totalChunks;
\* an uploadChunk with a chunk index outside 0..totalChunks-1 adds no part
\* and calls no uploadPart on any session, and on a stored session that is
\* neither completed nor past its deadline it fails with InvalidPartNumber
\* and leaves the status as it is
C27_PartNumbersInRange_Live ==
    /\ []PartsInRange
    /\ [][ \A s \in SessionIds, i \in ChunkIndexes :
              (UploadChunkCall(s, i) /\ OutOfRange(s, i))
              => /\ sessions'[s].uploadedParts = sessions[s].uploadedParts
                 /\ pending' = pending
                 /\ ( /\ s \in uploadSessions
                      /\ sessions[s].status # "completed"
                      /\ now <= sessions[s].expiresAt )
                    => /\ reply' = Reply("chunk", s, "InvalidPartNumber", NoValue)
                       /\ sessions' = sessions ]_vars

C27_Witness ==
    /\ reply = Reply("chunk", 1, "InvalidPartNumber", NoValue)
    /\ 1 \in uploadSessions
    /\ sessions[1].uploadedParts # <<>>
    /\ PartsInRange

\* a step of uploadChunk, completeUpload or cancelUpload for session a
OnSession(a) ==
    \/ \E i \in ChunkIndexes : UploadChunkCall(a, i)
    \/ CompleteUploadCall(a)
    \/ CancelUploadCall(a)
    \/ \E c \in BagToSet(pending) :
          /\ c.sid = a
          /\ \/ \E r \in Range(ETags) \cup {"AdapterError"} : UploadChunkResume(c, r)
             \/ \E r \in Locations \cup {"AdapterError"} : CompleteUploadResume(c, r)
             \/ \E ok \in BOOLEAN : CancelUploadResume(c, ok)

\* C28: a step of uploadChunk, completeUpload or cancelUpload for one
\* session leaves the status, the parts and the store membership of every
\* other session as they were (an uploadChunk for one session that finishes
\* while an uploadChunk for another is awaiting the storage adapter is the
\* state C28_Witness describes)
C28_SessionsIndependent ==
    [][ \A a \in SessionIds, b \in SessionIds :
          (a # b /\ OnSession(a))
          => /\ sessions'[b] = sessions[b]
             /\ (b \in uploadSessions') = (b \in uploadSessions) ]_vars

C28_Witness ==
    /\ Count("chunk", 1) > 0
    /\ sessions[1].status = "pending"
    /\ sessions[1].uploadedParts = <<>>
    /\ reply.op = "chunk"
    /\ reply.sid = 2
    /\ reply.outcome = "ok"
    /\ sessions[2].status = "uploading"
    /\ Len(sessions[2].uploadedParts) = 1
    /\ {1, 2} \subseteq uploadSessions

\* C29: an uploadChunk that returns a completion tag has recorded its part
\* in a session that is in the store when it returns, however the call is
\* interleaved with the expiry sweep; stated for the first part of a
\* session, whose status then shows that no cancelUpload has removed it
C29_SweepKeepsAcceptedParts ==
    [][ \A c \in BagToSet(pending), r \in Range(ETags) :
          ( /\ UploadChunkResume(c, r)
            /\ sessions[c.sid].uploadedParts = <<>>
            /\ sessions[c.sid].status # "cancelled" )
          => /\ reply' = Reply("chunk", c.sid, "ok", r)
             /\ c.part \in PartNumbers(sessions'[c.sid].uploadedParts)
             /\ c.sid \in uploadSessions' ]_vars

\* the workers other than w are still in flight
OthersKept(w) ==
    \A v \in BagToSet(workers) \ {w} : CopiesIn(v, workers') >= CopiesIn(v, workers)

\* C30: a chunk that backs off or has used up its attempts touches its own
\* worker only: a backoff leaves the queue and the other workers as they
\* are, a worker whose chunk has failed for good takes the next chunk of the
\* queue, a run whose workers have joined without a pause has left the
\* queue empty, and while a run has workers a queue that holds chunks is
\* drained unless a pause or a cancel is requested
C30_FailureIsolation ==
    /\ [][ \A w \in BagToSet(workers) :
              /\ (AttemptResult(w, "throw") /\ w.attempt < MaxRetries)
                 => /\ queue' = queue
                    /\ runs' = runs
                    /\ OthersKept(w)
              /\ ( /\ \E o \in {"false", "throw"} : AttemptResult(w, o)
                   /\ w.attempt = MaxRetries
                   /\ ~paused
                   /\ queue # <<>> )
                 => /\ file'.chunks[w.chunk] = "error" \/ Head(queue) = w.chunk
                    /\ queue' = Tail(queue)
                    /\ Worker(w.run, Head(queue), 0, "request", 0) \in BagToSet(workers')
                    /\ runs' = runs
                    /\ OthersKept(w) ]_vars
    /\ [][ \A r \in 1..MaxRuns :
              (runs[r] = "workers" /\ runs'[r] # "workers" /\ ~paused)
              => queue' = <<>> ]_vars
    /\ (queue # <<>> /\ \E r \in 1..MaxRuns : runs[r] = "workers")
          ~> (queue = <<>> \/ paused)

C30_Witness ==
    /\ ~paused
    /\ cancelling = "no"
    /\ runs[1] = "workers"
    /\ \E i \in 1..Len(file.chunks) : file.chunks[i] = "error"
    /\ \E w \in BagToSet(workers), v \in BagToSet(workers) :
          /\ w.phase = "backoff"
          /\ v.phase = "request"
          /\ v.run = w.run
          /\ v.chunk # w.chunk
          /\ file.chunks[v.chunk] = "uploading"

\* the /upload/chunk route once the form fields are present: 200 with the
\* tag, and 500 for whatever uploadChunk threw
ChunkRouteStatus(outcome) == IF outcome = "ok" THEN 200 ELSE 500

\* the /upload/cancel route once the body has passed cancelUploadSchema
CancelRouteStatus(outcome) == IF outcome = "ok" THEN 200 ELSE 500

\* C31: the chunk route answers 404 for a session id the store does not
\* hold; the cancel route answers 404 for an unknown session id and 400 for
\* a completed session
C31_HttpErrorMapping ==
    /\ (reply.op = "chunk" /\ reply.outcome = "SessionNotFound")
       => ChunkRouteStatus(reply.outcome) = 404
    /\ (reply.op = "cancel" /\ reply.outcome = "SessionNotFound")
       => CancelRouteStatus(reply.outcome) = 404
    /\ (reply.op = "cancel" /\ reply.outcome = "CannotCancelCompleted")
       => CancelRouteStatus(reply.outcome) = 400

\* run r ends in this step with the transfer failed for its chunks in error
EndsFailed(r) ==
    /\ runs[r] = "workers"
    /\ runs'[r] = "done"
    /\ file'.status = "failed"
    /\ file'.error = ChunksFailed(ErrorCount(file'.chunks))

\* C32: the step that ends a run with the transfer failed for chunks in
\* error sends no request (no cancel, no complete, no chunk) and leaves the
\* session id in the file; a retryFailed on that transfer takes up this id
\* and asks for the status of the session instead of initiating a new one
C32_NoAutoAbort ==
    [][ /\ \A r \in 1..MaxRuns :
              EndsFailed(r)
              => /\ cancelling' = cancelling
                 /\ completeRequests' = completeRequests
                 /\ \A w \in BagToSet(workers') : CopiesIn(w, workers') <= CopiesIn(w, workers)
                 /\ \A q \in 1..MaxRuns \ {r} : runs'[q] = runs[q]
                 /\ file'.backendUploadId # 0
                 /\ file'.backendUploadId = file.backendUploadId
        /\ ( /\ RetryFailedCall
             /\ file.status = "failed"
             /\ file.error = ChunksFailed(ErrorCount(file.chunks)) )
           => /\ cancelling' = cancelling
              /\ file'.backendUploadId = file.backendUploadId
              /\ heldUploadId' = file.backendUploadId
              /\ heldUploadId' # 0
              /\ runs'[NextRun] = "sync" ]_vars

C32_Witness ==
    /\ file.status = "failed"
    /\ file.error = ChunksFailed(1)
    /\ \E i \in 1..Len(file.chunks) : file.chunks[i] = "success"
    /\ file.backendUploadId # 0
    /\ heldUploadId = 0
    /\ cancelling = "no"
    /\ RunsLeft

\* C33: once pause() or cancel() has set the flag no worker starts an upload
\* attempt, neither for a chunk it takes from the queue nor as a retry of
\* the chunk it holds
C33_NoAttemptAfterPause ==
    [][ paused
        => \A w \in BagToSet(workers') :
              w.phase = "request" => CopiesIn(w, workers') <= CopiesIn(w, workers) ]_vars

\* C34: a controller constructed with maxRetries = n, n in 0..10, attempts
\* a chunk at most n + 1 times; with maxRetries = 0 a chunk whose first
\* attempt has failed is in error and is not attempted again
C34_RetryCountHonoured ==
    (returned # <<>> /\ args.fn = "constructor" /\ args.config.maxRetries # Undefined)
    => /\ returned[1].attempts <= args.config.maxRetries + 1
       /\ (args.config.maxRetries = 0 /\ returned[1].attempts = 1)
          => returned[1].status \in {"success", "error"}

\* C35: while the controller holds the id of a session that is in the store
\* and no run is waiting for the status of a session, every chunk that is
\* success locally has its part number in the parts of that session
C35_LocalSuccessBacked ==
    ( /\ heldUploadId # 0
      /\ heldUploadId \in uploadSessions
      /\ \A r \in 1..MaxRuns : runs[r] # "sync" )
    => \A i \in 1..Len(file.chunks) :
          file.chunks[i] = "success"
          => i \in PartNumbers(sessions[heldUploadId].uploadedParts)

\* C36: completeMultipartUpload is invoked at most once for a session,
\* also when two completeUpload calls for it overlap
C36_CompleteInvokedOnce ==
    \A s \in SessionIds : completeCalls[s] <= 1

\* C37: no session in the store has the status cancelled, a session is out
\* of the store after the step that marks it cancelled, no call is answered
\* SessionCancelled, and uploadChunk, completeUpload and cancelUpload on the
\* id of a session that was cancelled are answered SessionNotFound
C37_CancelledNeverStored ==
    /\ [](\A s \in uploadSessions : sessions[s].status # "cancelled")
    /\ [](reply.outcome # "SessionCancelled")
    /\ [][ \A s \in SessionIds :
              /\ (sessions'[s].status = "cancelled" /\ sessions[s].status # "cancelled")
                 => s \notin uploadSessions'
              /\ ( /\ abortCalls[s] > 0
                   /\ s \notin uploadSessions
                   /\ \/ \E i \in ChunkIndexes : UploadChunkCall(s, i)
                      \/ CompleteUploadCall(s)
                      \/ CancelUploadCall(s) )
                 => /\ reply'.outcome = "SessionNotFound"
                    /\ reply'.sid = s
                    /\ sessions' = sessions
                    /\ pending' = pending ]_vars

C37_Witness ==
    /\ reply = Reply("chunk", 1, "SessionNotFound", NoValue)
    /\ sessions[1].status = "cancelled"
    /\ 1 \notin uploadSessions
    /\ abortCalls[1] = 1

\* C38: when abortMultipartUpload fails during cancelUpload the call fails
\* with the adapter's error and the session stays in the store with its
\* status and its parts as they were, neither cancelled nor removed; a
\* later cancelUpload on it invokes the abort again
C38_FailedAbortKeepsSession ==
    [][ /\ \A c \in Suspended("cancel") :
              CancelUploadResume(c, FALSE)
              => /\ reply' = Reply("cancel", c.sid, "AdapterError", NoValue)
                 /\ sessions' = sessions
                 /\ uploadSessions' = uploadSessions
        /\ \A s \in SessionIds :
              ( /\ reply = Reply("cancel", s, "AdapterError", NoValue)
                /\ s \in uploadSessions
                /\ sessions[s].status # "completed"
                /\ CancelUploadCall(s) )
              => /\ abortCalls'[s] = abortCalls[s] + 1
                 /\ Count("cancel", s)' = Count("cancel", s) + 1 ]_vars

C38_Witness ==
    /\ reply = Reply("cancel", 1, "AdapterError", NoValue)
    /\ 1 \in uploadSessions
    /\ sessions[1].status = "uploading"
    /\ sessions[1].uploadedParts # <<>>
    /\ abortCalls[1] = 1
    /\ pending = EmptyBag

\* C39: when the status request a run sent for its reconciliation fails,
\* no chunk changes its status but the chunks the run then takes from the
\* queue, no session is initiated, the queue is built from the chunks that
\* are not success locally, and every chunk the run takes is sent with the
\* session id the controller holds
C39_StatusFailureKeepsLocalState ==
    [][ \A e \in Outstanding({"sync"}) :
          LET r == e.worker.run
              taken == {w.chunk : w \in WorkersOf(r, workers')}
          IN  ( \/ StatusAnswered(e, FALSE)
                \/ (e.uploadId \notin uploadSessions /\ StatusAnswered(e, TRUE)) )
              => /\ \A i \in 1..Len(file.chunks) :
                       file'.chunks[i] = IF i \in taken THEN "uploading" ELSE file.chunks[i]
                 /\ taken \cup Elements(queue') = Elements(NotSuccess(file.chunks))
                 /\ runs'[r] \in {"workers", "complete", "done"}
                 /\ \A q \in 1..MaxRuns : runs'[q] # "initiate" \/ runs[q] = "initiate"
                 /\ sessions' = sessions
                 /\ uploadSessions' = uploadSessions
                 /\ file'.backendUploadId = file.backendUploadId
                 /\ heldUploadId' = heldUploadId
                 /\ \A w \in WorkersOf(r, workers') :
                       /\ heldUploadId # 0
                       /\ Request(w, heldUploadId) \in BagToSet(requests') ]_vars

\* C40: after updateProgress on a transfer with at least one chunk,
\* progress is 100 * (success chunks) / (chunks) and lies in 0..100, and
\* uploadedSize is at most totalSize, also when every chunk is success and
\* the last chunk is shorter than chunkSize
C40_ProgressWithinBounds ==
    (returned # <<>> /\ args.fn = "updateProgress")
    => /\ returned[1].progress.num = 100 * SuccessCount(args.chunks)
       /\ returned[1].progress.den = Len(args.chunks)
       /\ 0 <= returned[1].progress.num
       /\ returned[1].progress.num <= 100 * returned[1].progress.den
       /\ returned[1].uploadedSize <= args.totalSize
====
